---- MODULE Spec2Model ----
(***************************************************************************)
(* A model of trace-rs: `trace!` / `_trace` (src/src/lib.rs).              *)
(*                                                                         *)
(* `_trace(text, module_path)` captures a backtrace, walks its frames from *)
(* the root of the stack to the `_trace` frame, diffs them in place        *)
(* against the frame list kept in the process-wide LAST_TRACE_INFO mutex,  *)
(* and prints the message behind an indentation prefix.                    *)
(*                                                                         *)
(* Text is modelled as a sequence of tokens: the four-character            *)
(* indentation cells, the line break "\n", and opaque message tokens.      *)
(*                                                                         *)
(* Not modelled: `last_trace.reserve(..)` (line 97), which changes the     *)
(* capacity of the vector and not its contents; and the bytes a failing    *)
(* println may have written before it failed.                              *)
(***************************************************************************)
EXTENDS Integers, Sequences, FiniteSets, TLC

VARIABLES
    last_trace,   \* LAST_TRACE_INFO.0 : Vec<String>, root-to-leaf frames
    basis_depth,  \* LAST_TRACE_INFO.1 : usize
    lock,         \* the thread holding the LAST_TRACE_INFO guard, or NoThread
    poisoned,     \* the mutex's poison flag (a guard was dropped while panicking)
    pc,           \* pc[t]: where thread t is inside (or between) calls of _trace
    loc,          \* loc[t]: the locals of thread t's current or last call
    stdout,       \* the console sink: the thread whose line it took last
    prev_call,    \* history: the call that completed last (any thread)
    stored,       \* history: who stored last_trace, and what it stored
    own_prev,     \* history: own_prev[t] = frames of t's last rendered call
    prog          \* the documented example program (used by SpecDoc only)

vars == <<last_trace, basis_depth, lock, poisoned, pc, loc, stdout,
          prev_call, stored, own_prev, prog>>

---------------------------------------------------------------------------
(* Bounds of the model.                                                    *)

MaxDepth == 4        \* longest captured frame list explored by Spec
MaxRuntime == 2      \* most runtime frames above `main` in SpecDoc
MaxN == 3            \* largest n of s(n, k) run by SpecDoc

---------------------------------------------------------------------------
(* Frames.  A frame descriptor is one piece of the Debug rendering of the  *)
(* backtrace, `{ fn: "unit::path", file: .., line: N`; two descriptors are *)
(* the same string iff unit, fn and line agree.                            *)

Frame(u, f, l) == [unit |-> u, fn |-> f, line |-> l]

\* trace_path = `fn: "trace::_trace"`; frame.contains(trace_path)
ContainsTracePath(frame) == frame.unit = "trace" /\ frame.fn = "_trace"

\* crate_name = module_path.split("::").next().unwrap()
crate_name(module_path) == Head(module_path)

\* crate_path = `fn: "<crate_name>::`; frame.contains(crate_path)
ContainsCratePath(frame, module_path) == frame.unit = crate_name(module_path)

TraceFrame == Frame("trace", "_trace", 78)

Threads == {"t1", "t2"}
NoThread == "none"

---------------------------------------------------------------------------
(* Text.                                                                   *)

NL == "\n"

RECURSIVE repeat(_, _)
\* str::repeat(n): n copies of one cell
repeat(cell, n) == IF n <= 0 THEN <<>> ELSE <<cell>> \o repeat(cell, n - 1)

contains(text, ch) == \E i \in 1..Len(text) : text[i] = ch

RECURSIVE replace(_, _, _)
\* str::replace(from, to): every occurrence of the token `from` becomes `to`
replace(text, from, to) ==
    IF text = <<>> THEN <<>>
    ELSE (IF Head(text) = from THEN to ELSE <<Head(text)>>)
         \o replace(Tail(text), from, to)

\* a faulty println, `print!`: no line terminator (C1 must notice)
println_bare(s) == s

\* println!("{s}"): the text followed by one line terminator
println(s) == s \o <<NL>>

\* a faulty println that swallows the write error (C10 must notice)
println_ignores(ok) == FALSE

\* println! panics when the write to stdout fails (doc, # Panics)
println_panics(ok) == ~ok

---------------------------------------------------------------------------
(* The frame walk: `'find_depth: for frame in trace { .. }`.               *)

\* a faulty match test that counts every frame equal to the stored frame at
\* its index, also after a mismatch (C11 must notice)
frame_matches_any(w, frame, last_trace_depth) ==
    /\ w.trace_depth < last_trace_depth
    /\ frame = w.last_trace[w.trace_depth + 1]

\* the match test of the loop body: a frame extends the match only when every
\* earlier frame matched and it equals the stored frame at its own index
frame_matches(w, frame, last_trace_depth) ==
    /\ w.trace_depth < last_trace_depth
    /\ w.match_depth = w.trace_depth
    /\ frame = w.last_trace[w.trace_depth + 1]

\* the store of the loop body: overwrite in place below the old length, push above
store_frame(w, frame, last_trace_depth) ==
    IF w.trace_depth < last_trace_depth
    THEN [w.last_trace EXCEPT ![w.trace_depth + 1] = frame]
    ELSE Append(w.last_trace, frame)

\* a faulty update without the `crate_depth == 0` test, which keeps the last
\* frame of the crate instead of the first (C13 must notice)
find_crate_last(w, frame, module_path) ==
    IF ContainsCratePath(frame, module_path) THEN w.trace_depth ELSE w.crate_depth

\* the crate_depth update of the loop body
find_crate(w, frame, module_path) ==
    IF w.crate_depth = 0 /\ ContainsCratePath(frame, module_path)
    THEN w.trace_depth
    ELSE w.crate_depth

\* one pass of the loop body over a frame that is not the `_trace` frame
walk_frame(w, frame, module_path, last_trace_depth) ==
    [last_trace  |-> store_frame(w, frame, last_trace_depth),
     trace_depth |-> w.trace_depth + 1,
     match_depth |-> IF frame_matches(w, frame, last_trace_depth)
                     THEN w.match_depth + 1 ELSE w.match_depth,
     crate_depth |-> find_crate(w, frame, module_path)]

RECURSIVE find_depth(_, _, _, _)
\* the loop: frames root first, until the frame of `_trace` itself
find_depth(trace, w, module_path, last_trace_depth) ==
    IF trace = <<>> THEN w
    ELSE IF ContainsTracePath(Head(trace)) THEN w
    ELSE find_depth(Tail(trace),
                    walk_frame(w, Head(trace), module_path, last_trace_depth),
                    module_path, last_trace_depth)

\* a faulty walk that forgets the truncation (C5 must notice)
truncate_none(v, n) == v

\* last_trace.truncate(trace_depth)
truncate(v, n) == IF n < Len(v) THEN SubSeq(v, 1, n) ELSE v

\* a faulty cap that keeps the uncapped match depth (C14 must notice)
min_left(a, b) == a

\* match_depth.min(trace_depth)
min(a, b) == IF a < b THEN a ELSE b

\* a faulty order, truncation before the zero-frame test (C6 must notice)
walked_trace_early(w) == SubSeq(w.last_trace, 1, w.trace_depth)

\* lines 123-127: last_trace after the walk: untouched on the zero-frame
\* return, truncated to the walked depth otherwise
walked_trace(w) ==
    IF w.trace_depth = 0 THEN w.last_trace
    ELSE truncate(w.last_trace, w.trace_depth)

\* the locals after the loop, before the `trace_depth == 0` test
walk(trace, module_path, old_last_trace) ==
    find_depth(trace,
               [last_trace |-> old_last_trace, trace_depth |-> 0,
                match_depth |-> 0, crate_depth |-> 0],
               module_path, Len(old_last_trace))

---------------------------------------------------------------------------
(* The indentation renderer.                                               *)

\* a faulty reset test that forgets the comparison with the basis (C12 must notice)
root_reset_zero(match_depth, basis) == match_depth = 0

\* a faulty reset test that forgets `match_depth == 0` (C18 must notice)
root_reset_lt(match_depth, basis) == match_depth < basis

\* a faulty reset test, `<=` for `<` (C3 must notice)
root_reset_le(match_depth, basis) == match_depth = 0 \/ match_depth <= basis

\* `if match_depth == 0 || match_depth < *basis_depth`
root_reset(match_depth, basis) == match_depth = 0 \/ match_depth < basis

\* a faulty basis that ignores crate_depth (C2 must notice)
new_basis_full(crate_depth, trace_depth) == trace_depth

\* a faulty basis that takes the number of frames for the index of the last
\* one (C17 must notice)
new_basis_count(crate_depth, trace_depth) ==
    IF crate_depth = 0 THEN trace_depth + 1 ELSE crate_depth

\* `*basis_depth = if crate_depth == 0 { trace_depth } else { crate_depth }`
new_basis(crate_depth, trace_depth) ==
    IF crate_depth = 0 THEN trace_depth ELSE crate_depth

\* a faulty reset prefix, one `>---` too many (C4 must notice)
reset_prefix_extra(trace_depth, basis) ==
    IF trace_depth > basis
    THEN <<"@---">> \o repeat(">---", trace_depth - basis) \o <<"|   ">>
    ELSE <<"@   ">>

\* the prefix of the root-reset branch, with the basis set by this call
reset_prefix(trace_depth, basis) ==
    IF trace_depth > basis
    THEN <<"@---">> \o repeat(">---", trace_depth - basis - 1) \o <<"|   ">>
    ELSE <<"@   ">>

\* a faulty continuing prefix, one padding cell too wide (C16 must notice)
branch_prefix_wide(trace_depth, match_depth, basis) ==
    repeat("    ", match_depth - basis + 1)
    \o repeat(">---", trace_depth - match_depth)
    \o <<"|   ">>

\* the prefix of the continuing branch
branch_prefix(trace_depth, match_depth, basis) ==
    repeat("    ", match_depth - basis)
    \o repeat(">---", trace_depth - match_depth)
    \o <<"|   ">>

\* a faulty continuation that repeats the divergence markers (C7 must notice)
continuation_marked(trace_depth, basis) ==
    <<NL>> \o repeat(">---", trace_depth - basis) \o <<"|   ">>

\* what a line break of the message is replaced by
continuation(trace_depth, basis) ==
    <<NL>> \o repeat("    ", trace_depth - basis) \o <<"|   ">>

\* `if text.contains('\n') { text.replace('\n', ..) } else { text }`
indent_text(text, trace_depth, basis) ==
    IF contains(text, NL)
    THEN replace(text, NL, continuation(trace_depth, basis))
    ELSE text

\* the usize subtractions the renderer evaluates as repetition counts
counts(reset, text, trace_depth, match_depth, basis) ==
    (IF reset
     THEN (IF trace_depth > basis THEN {trace_depth - basis - 1} ELSE {})
     ELSE {match_depth - basis, trace_depth - match_depth})
    \cup (IF contains(text, NL) THEN {trace_depth - basis} ELSE {})

\* lines 132-155: the branch taken, the basis after it, and depth_text
render(text, trace_depth, match_depth, crate_depth, old_basis) ==
    LET reset == root_reset(match_depth, old_basis)
        basis == IF reset THEN new_basis(crate_depth, trace_depth) ELSE old_basis
        prefix == IF reset THEN reset_prefix(trace_depth, basis)
                  ELSE branch_prefix(trace_depth, match_depth, basis)
    IN [branch      |-> IF reset THEN "reset" ELSE "continue",
        basis_depth |-> basis,
        prefix      |-> prefix,
        depth_text  |-> prefix \o indent_text(text, trace_depth, basis),
        underflow   |-> \E c \in counts(reset, text, trace_depth, match_depth, basis) : c < 0]

---------------------------------------------------------------------------
(* History bookkeeping (not program state).                                *)

\* the frames a capture keeps: those before the first frame of `_trace`
Filtered(trace) ==
    LET stops == {i \in 1..Len(trace) : ContainsTracePath(trace[i])}
        stop  == IF stops = {} THEN Len(trace) + 1
                 ELSE CHOOSE i \in stops : \A j \in stops : i <= j
    IN SubSeq(trace, 1, stop - 1)

NoCall == [kind |-> "none", by |-> NoThread, frames |-> <<>>, text |-> <<>>]

NoLocals ==
    [status |-> "none", trace |-> <<>>, text |-> <<>>, module_path |-> <<>>,
     last_trace_depth |-> 0, trace_depth |-> 0, match_depth |-> 0,
     crate_depth |-> 0, branch |-> "none", prefix |-> <<>>, depth_text |-> <<>>,
     writes |-> 0, write_failed |-> FALSE, printed |-> <<>>, kind |-> "none",
     entry_last |-> <<>>, entry_basis |-> 0,
     against |-> [by |-> NoThread, frames |-> <<>>]]

---------------------------------------------------------------------------
(* The state after construction: `Mutex::new((vec![], 0))`, nothing        *)
(* printed, no thread inside `_trace`.                                     *)

InitState ==
    /\ last_trace = <<>>
    /\ basis_depth = 0
    /\ lock = NoThread
    /\ poisoned = FALSE
    /\ pc = [t \in Threads |-> "idle"]
    /\ loc = [t \in Threads |-> NoLocals]
    /\ stdout = NoThread
    /\ prev_call = NoCall
    /\ stored = [by |-> NoThread, frames |-> <<>>]
    /\ own_prev = [t \in Threads |-> <<>>]

Init == InitState /\ prog = [pc |-> "off"]

---------------------------------------------------------------------------
(* The steps of one call `_trace(text, module_path)` by thread t.          *)

\* line 83: entry, and `Backtrace::capture()`; no lock is held yet
Enter(t, status, trace, text, module_path) ==
    /\ pc[t] = "idle"
    /\ pc' = [pc EXCEPT ![t] = "captured"]
    /\ loc' = [loc EXCEPT ![t] =
                 [NoLocals EXCEPT !.status = status, !.trace = trace,
                                  !.text = text, !.module_path = module_path,
                                  !.entry_last = last_trace,
                                  !.entry_basis = basis_depth]]
    /\ UNCHANGED <<last_trace, basis_depth, lock, poisoned, stdout,
                   prev_call, stored, own_prev>>

\* a completed (or panicked) call, for the history
Completed(t, kind) ==
    [kind |-> kind, by |-> t, frames |-> Filtered(loc[t].trace), text |-> loc[t].text]

\* lines 84-85: status != Captured: `println!("{text}")`
PrintPlain(t, ok) ==
    /\ pc[t] = "captured"
    /\ loc[t].status # "Captured"
    /\ stdout' = IF ok THEN t ELSE stdout
    /\ loc' = [loc EXCEPT ![t].writes = @ + 1, ![t].write_failed = ~ok,
                          ![t].kind = "plain",
                          ![t].printed = IF ok THEN println(loc[t].text) ELSE <<>>]
    /\ IF println_panics(ok)
       THEN /\ pc' = [pc EXCEPT ![t] = "panicked"]
            /\ prev_call' = Completed(t, "panicked")
       ELSE /\ pc' = [pc EXCEPT ![t] = "written"]
            /\ prev_call' = prev_call
    /\ UNCHANGED <<last_trace, basis_depth, lock, poisoned, stored, own_prev, prog>>

\* a faulty lock that does not wait for the holder (C8 must notice)
Lock_nowait(t) ==
    /\ pc[t] = "captured"
    /\ loc[t].status = "Captured"
    /\ pc' = [pc EXCEPT ![t] = "locked"]
    /\ lock' = t
    /\ loc' = [loc EXCEPT ![t].last_trace_depth = Len(last_trace),
                          ![t].against = stored]
    /\ UNCHANGED <<last_trace, basis_depth, poisoned, stdout,
                   prev_call, stored, own_prev, prog>>

\* lines 89-91: `LAST_TRACE_INFO.lock().unwrap()`; a poisoned mutex panics here
Lock(t) ==
    /\ pc[t] = "captured"
    /\ loc[t].status = "Captured"
    /\ lock = NoThread
    /\ IF poisoned
       THEN /\ pc' = [pc EXCEPT ![t] = "panicked"]
            /\ UNCHANGED <<lock, loc>>
       ELSE /\ pc' = [pc EXCEPT ![t] = "locked"]
            /\ lock' = t
            /\ loc' = [loc EXCEPT ![t].last_trace_depth = Len(last_trace),
                                  ![t].against = stored]
    /\ UNCHANGED <<last_trace, basis_depth, poisoned, stdout,
                   prev_call, stored, own_prev, prog>>

\* a faulty walk that diffs against the thread's own previous frames, as a
\* thread-local state would (C9 must notice)
Walk_own(t) ==
    /\ pc[t] = "locked"
    /\ LET w == walk(loc[t].trace, loc[t].module_path, own_prev[t])
       IN IF w.trace_depth = 0
          THEN /\ last_trace' = last_trace
               /\ pc' = [pc EXCEPT ![t] = "empty"]
               /\ loc' = [loc EXCEPT ![t].kind = "plain"]
               /\ UNCHANGED stored
          ELSE /\ last_trace' = walked_trace(w)
               /\ pc' = [pc EXCEPT ![t] = "walked"]
               /\ loc' = [loc EXCEPT
                     ![t].trace_depth = w.trace_depth - 1,
                     ![t].match_depth = min(w.match_depth, w.trace_depth - 1),
                     ![t].crate_depth = w.crate_depth,
                     ![t].kind = "rendered"]
               /\ stored' = [by |-> t, frames |-> Filtered(loc[t].trace)]
    /\ UNCHANGED <<basis_depth, lock, poisoned, stdout, prev_call, own_prev, prog>>

\* lines 93-129: the walk over the frames, the truncation and the cap
Walk(t) ==
    /\ pc[t] = "locked"
    /\ LET w == walk(loc[t].trace, loc[t].module_path, last_trace)
       IN IF w.trace_depth = 0
          THEN /\ last_trace' = walked_trace(w)
               /\ pc' = [pc EXCEPT ![t] = "empty"]
               /\ loc' = [loc EXCEPT ![t].kind = "plain"]
               /\ UNCHANGED stored
          ELSE /\ last_trace' = walked_trace(w)
               /\ pc' = [pc EXCEPT ![t] = "walked"]
               /\ loc' = [loc EXCEPT
                     ![t].trace_depth = w.trace_depth - 1,
                     ![t].match_depth = min(w.match_depth, w.trace_depth - 1),
                     ![t].crate_depth = w.crate_depth,
                     ![t].kind = "rendered"]
               /\ stored' = [by |-> t, frames |-> Filtered(loc[t].trace)]
    /\ UNCHANGED <<basis_depth, lock, poisoned, stdout, prev_call, own_prev, prog>>

\* a faulty unwinding that leaves the mutex locked (C15 must notice)
Unwind_held(t) ==
    /\ pc' = [pc EXCEPT ![t] = "panicked"]
    /\ lock' = lock
    /\ poisoned' = TRUE
    /\ prev_call' = Completed(t, "panicked")

\* what a panic inside the guard's scope leaves: the guard is dropped while
\* unwinding, which releases and poisons the mutex
Unwind(t) ==
    /\ pc' = [pc EXCEPT ![t] = "panicked"]
    /\ lock' = NoThread
    /\ poisoned' = TRUE
    /\ prev_call' = Completed(t, "panicked")

\* lines 123-124: no frame walked: `println!("{text}")`, the guard still held
PrintEmpty(t, ok) ==
    /\ pc[t] = "empty"
    /\ stdout' = IF ok THEN t ELSE stdout
    /\ loc' = [loc EXCEPT ![t].writes = @ + 1, ![t].write_failed = ~ok,
                          ![t].printed = IF ok THEN println(loc[t].text) ELSE <<>>]
    /\ IF println_panics(ok)
       THEN Unwind(t)
       ELSE /\ pc' = [pc EXCEPT ![t] = "written"]
            /\ UNCHANGED <<lock, poisoned, prev_call>>
    /\ UNCHANGED <<last_trace, basis_depth, stored, own_prev, prog>>

\* lines 132-155: root-reset decision, basis update, depth_text;
\* a negative repetition count is a panic
Render(t) ==
    /\ pc[t] = "walked"
    /\ LET r == render(loc[t].text, loc[t].trace_depth, loc[t].match_depth,
                       loc[t].crate_depth, basis_depth)
       IN /\ basis_depth' = r.basis_depth
          /\ IF r.underflow
             THEN /\ Unwind(t)
                  /\ loc' = [loc EXCEPT ![t].branch = r.branch]
             ELSE /\ pc' = [pc EXCEPT ![t] = "rendered"]
                  /\ loc' = [loc EXCEPT ![t].branch = r.branch,
                                        ![t].prefix = r.prefix,
                                        ![t].depth_text = r.depth_text]
                  /\ UNCHANGED <<lock, poisoned, prev_call>>
    /\ UNCHANGED <<last_trace, stdout, stored, own_prev, prog>>

\* line 156: `println!("{depth_text}")`, the guard still held
Write(t, ok) ==
    /\ pc[t] = "rendered"
    /\ stdout' = IF ok THEN t ELSE stdout
    /\ loc' = [loc EXCEPT ![t].writes = @ + 1, ![t].write_failed = ~ok,
                          ![t].printed = IF ok THEN println(loc[t].depth_text) ELSE <<>>]
    /\ IF println_panics(ok)
       THEN Unwind(t)
       ELSE /\ pc' = [pc EXCEPT ![t] = "written"]
            /\ UNCHANGED <<lock, poisoned, prev_call>>
    /\ UNCHANGED <<last_trace, basis_depth, stored, own_prev, prog>>

\* lines 86, 125, 157: the call returns; its locals die, and with them the guard
\* if the call took it
Leave(t) ==
    /\ pc[t] = "written"
    /\ pc' = [pc EXCEPT ![t] = "idle"]
    /\ lock' = IF lock = t THEN NoThread ELSE lock
    /\ prev_call' = Completed(t, loc[t].kind)
    /\ own_prev' = IF loc[t].kind = "rendered"
                   THEN [own_prev EXCEPT ![t] = Filtered(loc[t].trace)]
                   ELSE own_prev
    /\ loc' = [loc EXCEPT ![t] = NoLocals]
    /\ UNCHANGED <<last_trace, basis_depth, poisoned, stdout, stored>>

Return(t) == Leave(t) /\ UNCHANGED prog

---------------------------------------------------------------------------
(* Inputs.                                                                 *)

FA == Frame("app", "main", 1)
FB == Frame("lib", "run", 7)
Internal == Frame("std", "backtrace::Backtrace::create", 331)

Frames == {FA, FB}

RECURSIVE SeqsUpTo(_, _)
SeqsUpTo(S, n) ==
    IF n = 0 THEN {<<>>}
    ELSE LET shorter == SeqsUpTo(S, n - 1)
         IN shorter \cup {Append(q, x) : q \in {r \in shorter : Len(r) = n - 1}, x \in S}

\* what `rsplit('}')` can yield: the kept frames, then the `_trace` frame and
\* the frames under it; or, when no piece names `_trace`, kept frames alone
Captures ==
    {f \o <<TraceFrame, Internal>> : f \in SeqsUpTo(Frames, MaxDepth)}
    \cup (SeqsUpTo({FA}, MaxDepth) \ {<<>>})

Messages == {<<"a">>, <<"a", NL, "b", NL>>}

ModulePaths == {<<"app", "m">>}

ModulePathsMT == {<<"app">>, <<"lib", "m">>}

\* a call of `trace!` with the capture enabled
Call(t) ==
    /\ \E trace \in Captures, text \in Messages, mp \in ModulePaths :
           Enter(t, "Captured", trace, text, mp)
    /\ UNCHANGED prog

\* a call of `trace!` with the capture disabled or unsupported
CallDisabled(t) ==
    /\ \E status \in {"Disabled", "Unsupported"}, text \in Messages, mp \in ModulePaths :
           Enter(t, status, <<>>, text, mp)
    /\ UNCHANGED prog

\* one thread calling `trace!` again and again
Next ==
    \E t \in {"t1"} :
        \/ Call(t)
        \/ CallDisabled(t)
        \/ \E ok \in BOOLEAN : PrintPlain(t, ok)
        \/ Lock(t)
        \/ Walk(t)
        \/ \E ok \in BOOLEAN : PrintEmpty(t, ok)
        \/ Render(t)
        \/ \E ok \in BOOLEAN : Write(t, ok)
        \/ Return(t)

Spec == Init /\ [][Next]_vars

---------------------------------------------------------------------------
(* Several threads calling `trace!` concurrently.                          *)

CapturesMT ==
    {<<FA, FB, TraceFrame, Internal>>,
     <<FA, FA, FB, TraceFrame, Internal>>,
     <<TraceFrame, Internal>>}

CallMT(t) ==
    /\ \E trace \in CapturesMT, mp \in ModulePathsMT :
           Enter(t, "Captured", trace, <<"a">>, mp)
    /\ UNCHANGED prog

CallDisabledMT(t) ==
    /\ Enter(t, "Disabled", <<>>, <<"a">>, <<"app">>)
    /\ UNCHANGED prog

NextMT ==
    \E t \in Threads :
        \/ CallMT(t)
        \/ CallDisabledMT(t)
        \/ \E ok \in BOOLEAN : PrintPlain(t, ok)
        \/ Lock(t)
        \/ Walk(t)
        \/ \E ok \in BOOLEAN : PrintEmpty(t, ok)
        \/ Render(t)
        \/ \E ok \in BOOLEAN : Write(t, ok)
        \/ Return(t)

SpecMT == Init /\ [][NextMT]_vars

---------------------------------------------------------------------------
(* Several threads under a fair scheduler: a thread inside `_trace` keeps  *)
(* running, and a thread that waits for the mutex gets it if it is free    *)
(* again and again.                                                        *)

\* the steps thread t takes inside a call without waiting for anyone
Runs(t) ==
    \/ \E ok \in BOOLEAN : PrintPlain(t, ok)
    \/ Walk(t)
    \/ \E ok \in BOOLEAN : PrintEmpty(t, ok)
    \/ Render(t)
    \/ \E ok \in BOOLEAN : Write(t, ok)
    \/ Return(t)

Fairness ==
    \A t \in Threads : WF_vars(Runs(t)) /\ SF_vars(Lock(t))

\* a stack that renders, and one whose root-most piece is the `_trace` frame
CapturesFair ==
    {<<FA, FB, TraceFrame, Internal>>, <<TraceFrame, Internal>>}

CallFair(t) ==
    /\ \E trace \in CapturesFair :
           Enter(t, "Captured", trace, <<"a">>, <<"app">>)
    /\ UNCHANGED prog

NextFair ==
    \E t \in Threads :
        \/ CallFair(t)
        \/ CallDisabledMT(t)
        \/ \E ok \in BOOLEAN : PrintPlain(t, ok)
        \/ Lock(t)
        \/ Walk(t)
        \/ \E ok \in BOOLEAN : PrintEmpty(t, ok)
        \/ Render(t)
        \/ \E ok \in BOOLEAN : Write(t, ok)
        \/ Return(t)

SpecFair == Init /\ [][NextFair]_vars /\ Fairness

---------------------------------------------------------------------------
(* The documented example (doc comment of `trace!`, lines 39-66):          *)
(*                                                                         *)
(*     fn s(n: u8, k: u8) -> u8 {                                          *)
(*         trace!("n:{n}, k:{k}");                         // line 44      *)
(*         if n == k { return 1 }                                          *)
(*         if k == 0 || n < k { return 0 }                                 *)
(*         s(n-1, k-1) + s(n-1, k)*k                       // line 51      *)
(*     }                                                                   *)
(*     trace!("# of ways to group 3 items into 2 unordered sets:"); // 54  *)
(*     trace!("Result: {}", s(3, 2));                               // 55  *)
(*                                                                         *)
(* run by thread t1 with the capture enabled.  `prog` is the program's     *)
(* position, the activations of s, and the lines read back from the        *)
(* console.                                                                *)

DocThread == "t1"
DocModule == <<"rust_out">>

RuntimeFrame(i) == Frame("std", "rt::lang_start", i)
DocMain == Frame("rust_out", "main", 1)
DocTop(line) == Frame("rust_out", "main::_doctest_main", line)
DocS(line) == Frame("rust_out", "main::s", line)

\* the frames of the program at a call of `trace!`: the runtime, `main`, the
\* top-level function at the line it is executing, every activation of s at
\* the line it is executing, then `_trace` and what it called
DocTrace(top_line) ==
    [i \in 1..prog.runtime |-> RuntimeFrame(i)]
    \o <<DocMain, DocTop(top_line)>>
    \o [i \in 1..Len(prog.stack) |-> DocS(IF i = Len(prog.stack) THEN 44 ELSE 51)]
    \o <<TraceFrame, Internal>>

IntroText == <<"# of ways to group 3 items into 2 unordered sets:">>
SText(n, k) == <<"n:" \o ToString(n) \o ", k:" \o ToString(k)>>
ResultText(v) == <<"Result: " \o ToString(v)>>

DocUnchanged == UNCHANGED <<last_trace, basis_depth, lock, poisoned, pc, loc,
                            stdout, prev_call, stored, own_prev>>

\* line 54: the first `trace!` of the top-level function
DocIntro ==
    /\ prog.pc = "line54"
    /\ Enter(DocThread, "Captured", DocTrace(54), IntroText, DocModule)
    /\ prog' = [prog EXCEPT !.pc = "in_trace", !.then = "line55"]

\* a `trace!` of the program returns; the line it wrote is read back
DocReturn ==
    /\ prog.pc = "in_trace"
    /\ Leave(DocThread)
    /\ prog' = [prog EXCEPT !.pc = prog.then,
                            !.out = Append(@, loc[DocThread].printed)]

\* line 55: the arguments of the second `trace!` are evaluated: s(n, k) is called
DocCallS ==
    /\ prog.pc = "line55"
    /\ prog' = [prog EXCEPT !.pc = "line44",
                            !.stack = <<[n |-> prog.n, k |-> prog.k, at |-> "first", acc |-> 0]>>]
    /\ DocUnchanged

\* line 44: the `trace!` at the head of s
DocTraceS ==
    /\ prog.pc = "line44"
    /\ LET top == prog.stack[Len(prog.stack)]
       IN Enter(DocThread, "Captured", DocTrace(55), SText(top.n, top.k), DocModule)
    /\ prog' = [prog EXCEPT !.pc = "in_trace", !.then = "line45"]

\* lines 45-51: the base cases return, the general case makes its first call
DocBody ==
    /\ prog.pc = "line45"
    /\ LET d == Len(prog.stack)
           top == prog.stack[d]
       IN IF top.n = top.k
          THEN prog' = [prog EXCEPT !.pc = "return", !.ret = 1]
          ELSE IF top.k = 0 \/ top.n < top.k
          THEN prog' = [prog EXCEPT !.pc = "return", !.ret = 0]
          ELSE prog' = [prog EXCEPT !.pc = "line44",
                   !.stack = Append(@, [n |-> top.n - 1, k |-> top.k - 1,
                                         at |-> "first", acc |-> 0])]
    /\ DocUnchanged

\* an activation of s returns prog.ret to its caller: to line 55, or to line 51,
\* which makes its second call or multiplies, adds and returns in its turn
DocReturnS ==
    /\ prog.pc = "return"
    /\ LET d == Len(prog.stack)
           rest == SubSeq(prog.stack, 1, d - 1)
       IN IF d = 1
          THEN prog' = [prog EXCEPT !.pc = "line55_trace", !.stack = <<>>,
                                    !.result = prog.ret]
          ELSE LET caller == rest[d - 1]
               IN IF caller.at = "first"
                  THEN prog' = [prog EXCEPT !.pc = "line44",
                           !.stack = Append([rest EXCEPT ![d - 1].at = "second",
                                                         ![d - 1].acc = prog.ret],
                                            [n |-> caller.n - 1, k |-> caller.k,
                                             at |-> "first", acc |-> 0])]
                  ELSE prog' = [prog EXCEPT !.pc = "return", !.stack = rest,
                           !.ret = (caller.acc + prog.ret * caller.k) % 256]
    /\ DocUnchanged

\* line 55: the second `trace!` of the top-level function
DocResult ==
    /\ prog.pc = "line55_trace"
    /\ Enter(DocThread, "Captured", DocTrace(55), ResultText(prog.result), DocModule)
    /\ prog' = [prog EXCEPT !.pc = "in_trace", !.then = "end"]

\* the program starts on a fresh process, under one or more runtime frames
InitDoc ==
    /\ InitState
    /\ prog \in {[pc |-> "line54", then |-> "line55", n |-> n, k |-> k,
                  runtime |-> c, stack |-> <<>>, ret |-> 0, result |-> 0,
                  out |-> <<>>] :
                    n \in 0..MaxN, k \in 0..MaxN, c \in 1..MaxRuntime}

NextDoc ==
    \/ DocIntro
    \/ DocCallS
    \/ DocTraceS
    \/ DocBody
    \/ DocReturnS
    \/ DocResult
    \/ DocReturn
    \/ Lock(DocThread)
    \/ Walk(DocThread)
    \/ Render(DocThread)
    \/ \E ok \in BOOLEAN : Write(DocThread, ok)

SpecDoc == InitDoc /\ [][NextDoc]_vars

---------------------------------------------------------------------------
(* Vocabulary of the properties.                                           *)

Cells == {"@---", "@   ", ">---", "    ", "|   "}

Count(text, cell) == Cardinality({i \in 1..Len(text) : text[i] = cell})

\* the call of thread t went down the rendered path and its prefix is known
Rendered(t) == pc[t] \in {"rendered", "written"} /\ loc[t].kind = "rendered"

\* the call of thread t has written its line
Written(t) == pc[t] = "written"

\* the i-th line of a text: the tokens between its (i-1)-th and i-th line break
LineBreaks(text) == {i \in 1..Len(text) : text[i] = NL}

LineStart(text, i) ==
    IF i = 1 THEN 1
    ELSE 1 + CHOOSE b \in LineBreaks(text) :
                 Cardinality({c \in LineBreaks(text) : c < b}) = i - 2

LineEnd(text, i) ==
    IF i > Cardinality(LineBreaks(text)) THEN Len(text)
    ELSE (CHOOSE b \in LineBreaks(text) :
              Cardinality({c \in LineBreaks(text) : c < b}) = i - 1) - 1

Line(text, i) == SubSeq(text, LineStart(text, i), LineEnd(text, i))

\* a block handed to the console is its lines, each closed by a line terminator
NumLines(block) == Cardinality(LineBreaks(block))

Pad(n) == [i \in 1..n |-> "    "]

---------------------------------------------------------------------------
(* C1  Disabled-capture equivalence.  When the capture status is not       *)
(* Captured, the call writes exactly the message followed by one line      *)
(* terminator: no cell of the indentation alphabet is added, whether or    *)
(* not the message holds line breaks.                                      *)

C1_DisabledEquivalence ==
    \A t \in Threads :
        (Written(t) /\ loc[t].status # "Captured") =>
            /\ loc[t].printed = loc[t].text \o <<"\n">>
            /\ \A i \in 1..Len(loc[t].printed) : loc[t].printed[i] \notin Cells
            /\ loc[t].writes = 1

C1_Witness ==
    \E t \in Threads :
        /\ Written(t)
        /\ loc[t].status = "Disabled"
        /\ Count(loc[t].text, NL) = 2
        /\ last_trace # <<>>

---------------------------------------------------------------------------
(* C2  Documented scenario.  Run from the initial state with n = 3, k = 2, *)
(* the example program has written, when it ends, exactly the seven lines  *)
(* of the doc comment: the prefixes `@---|   `, `    >---|   `,            *)
(* `        >---|   `, `            >---|   `, `                |   `,     *)
(* `            |   `, `    |   `, each followed by its message.           *)

DocExpected ==
    << <<"@---", "|   ">> \o IntroText \o <<"\n">>,
       <<"    ", ">---", "|   ", "n:3, k:2", "\n">>,
       <<"    ", "    ", ">---", "|   ", "n:2, k:1", "\n">>,
       <<"    ", "    ", "    ", ">---", "|   ", "n:1, k:0", "\n">>,
       <<"    ", "    ", "    ", "    ", "|   ", "n:1, k:1", "\n">>,
       <<"    ", "    ", "    ", "|   ", "n:2, k:2", "\n">>,
       <<"    ", "|   ", "Result: 3", "\n">> >>

C2_DocScenario ==
    (prog.pc = "end" /\ prog.n = 3 /\ prog.k = 2) => prog.out = DocExpected

C2_Witness ==
    /\ prog.pc = "end" /\ prog.n = 3 /\ prog.k = 2
    /\ Len(prog.out) = 7
    /\ prog.result = 3
    /\ prog.runtime = 2

---------------------------------------------------------------------------
(* C3  Idempotent repeat.  Original statement: when a rendered call        *)
(* directly follows a rendered call with the same frames and the same      *)
(* message, match_depth = trace_depth and the prefix is padding cells      *)
(* followed by one `|   `, with no `>---`.                                 *)

Repeat(t) ==
    /\ Rendered(t)
    /\ prev_call.kind = "rendered"
    /\ prev_call.frames = Filtered(loc[t].trace)
    /\ prev_call.text = loc[t].text

C3_Original ==
    \A t \in Threads :
        Repeat(t) =>
            /\ loc[t].match_depth = loc[t].trace_depth
            /\ Count(loc[t].prefix, ">---") = 0
            /\ \E n \in 0..Len(loc[t].prefix) : loc[t].prefix = Pad(n) \o <<"|   ">>

(* C3 as amended: on such a repeat match_depth = trace_depth and there is  *)
(* no `>---`; the prefix is (trace_depth - basis_depth) padding cells and  *)
(* one `|   ` when the stack holds at least two frames, and the single     *)
(* cell `@   ` when it holds one frame (match_depth = 0 resets the root).  *)

C3_Amended ==
    \A t \in Threads :
        Repeat(t) =>
            /\ loc[t].match_depth = loc[t].trace_depth
            /\ Count(loc[t].prefix, ">---") = 0
            /\ IF loc[t].trace_depth >= 1
               THEN /\ loc[t].branch = "continue"
                    /\ loc[t].prefix =
                         Pad(loc[t].trace_depth - basis_depth) \o <<"|   ">>
               ELSE /\ loc[t].branch = "reset"
                    /\ loc[t].prefix = <<"@   ">>

C3_Witness ==
    \E t \in Threads :
        /\ Repeat(t)
        /\ loc[t].trace_depth >= 2
        /\ loc[t].trace_depth - basis_depth >= 1

---------------------------------------------------------------------------
(* C4  Divergence markers.  Original statement: the number of `>---` in a  *)
(* rendered prefix is trace_depth - match_depth on the continuing branch   *)
(* and trace_depth - basis_depth - 1 on a root reset, and is not negative. *)

C4_Original ==
    \A t \in Threads :
        Rendered(t) =>
            LET n == IF loc[t].branch = "continue"
                     THEN loc[t].trace_depth - loc[t].match_depth
                     ELSE loc[t].trace_depth - basis_depth - 1
            IN Count(loc[t].prefix, ">---") = n /\ n >= 0

(* C4 as amended: on a root reset the number is trace_depth - basis_depth  *)
(* - 1 when trace_depth > basis_depth and 0 when trace_depth = basis_depth *)
(* (the prefix is then `@   ` alone).                                      *)

C4_Amended ==
    \A t \in Threads :
        Rendered(t) =>
            LET n == IF loc[t].branch = "continue"
                     THEN loc[t].trace_depth - loc[t].match_depth
                     ELSE IF loc[t].trace_depth > basis_depth
                          THEN loc[t].trace_depth - basis_depth - 1
                          ELSE 0
            IN Count(loc[t].prefix, ">---") = n /\ n >= 0

C4_Witness ==
    \E t \in Threads :
        /\ Rendered(t)
        /\ loc[t].branch = "reset"
        /\ loc[t].trace_depth - basis_depth - 1 >= 1
        /\ loc[t].entry_last # <<>>

---------------------------------------------------------------------------
(* C5  State update.  After the walk of a rendered call, and until the     *)
(* call returns, last_trace is exactly the frames the capture kept, in     *)
(* root-to-leaf order, whatever it held before.                            *)

C5_StateUpdate ==
    \A t \in Threads :
        (pc[t] \in {"walked", "rendered", "written"} /\ loc[t].kind = "rendered") =>
            last_trace = Filtered(loc[t].trace)

C5_Witness ==
    \E t \in Threads :
        /\ Written(t) /\ loc[t].kind = "rendered"
        /\ Len(loc[t].entry_last) > Len(last_trace)
        /\ \E i \in 1..Len(last_trace) : loc[t].entry_last[i] # last_trace[i]

---------------------------------------------------------------------------
(* C6  Fallback leaves the state untouched.  A call that wrote the plain   *)
(* message (status not Captured, or no frame kept) left last_trace and     *)
(* basis_depth as they were at its entry; and a call that takes the lock   *)
(* finds in last_trace the frames of the latest rendered call.             *)

C6_FallbackFrame ==
    \A t \in Threads :
        /\ (pc[t] \in {"empty", "written"} /\ loc[t].kind = "plain") =>
               /\ last_trace = loc[t].entry_last
               /\ basis_depth = loc[t].entry_basis
        /\ pc[t] = "locked" => last_trace = loc[t].against.frames

C6_Witness ==
    \E t \in Threads :
        /\ Written(t) /\ loc[t].kind = "plain"
        /\ loc[t].status = "Captured"
        /\ Len(loc[t].entry_last) >= 2
        /\ loc[t].entry_basis >= 1

---------------------------------------------------------------------------
(* C7  Multi-line alignment.  A rendered call whose message holds N line   *)
(* breaks writes N + 1 lines; the first is the prefix and the first line   *)
(* of the message; each later one is (trace_depth - basis_depth) padding   *)
(* cells, one `|   `, and the matching line of the message, with the       *)
(* basis_depth this call left.                                             *)

C7_MultiLine ==
    \A t \in Threads :
        (Written(t) /\ loc[t].kind = "rendered") =>
            LET N == Count(loc[t].text, NL)
                out == loc[t].printed
            IN /\ NumLines(out) = N + 1
               /\ out[Len(out)] = NL
               /\ Line(out, 1) = loc[t].prefix \o Line(loc[t].text, 1)
               /\ \A i \in 2..(N + 1) :
                      /\ Line(out, i) =
                           Pad(loc[t].trace_depth - basis_depth)
                           \o <<"|   ">> \o Line(loc[t].text, i)
                      /\ Count(Line(out, i), ">---") = 0
                      /\ Count(Line(out, i), "@---") = 0
                      /\ Count(Line(out, i), "@   ") = 0

C7_Witness ==
    \E t \in Threads :
        /\ Written(t) /\ loc[t].kind = "rendered"
        /\ Count(loc[t].text, NL) = 2
        /\ loc[t].branch = "reset"
        /\ loc[t].entry_basis # basis_depth
        /\ loc[t].trace_depth - basis_depth >= 1
        /\ Count(loc[t].prefix, ">---") >= 1

---------------------------------------------------------------------------
(* C8  Serialization.  Original statement: a thread holds the lock for the *)
(* whole capture-diff-render sequence of its call, i.e. from the capture   *)
(* of the backtrace on; last_trace and basis_depth are changed only by the *)
(* thread that holds the lock; and a line written on the locked path is    *)
(* written by the lock's holder.                                           *)

\* thread t is between its first read of the state and its return
InSection(t) ==
    \/ pc[t] \in {"locked", "walked", "empty", "rendered"}
    \/ pc[t] = "written" /\ loc[t].status = "Captured"

\* thread t has captured a backtrace and is in the capture-diff-render sequence
InCall(t) == InSection(t) \/ (pc[t] = "captured" /\ loc[t].status = "Captured")

\* only the holder of the lock touches the state, and keeps the lock doing so
StateUnderLock ==
    (last_trace' # last_trace \/ basis_depth' # basis_depth) =>
        /\ lock # NoThread
        /\ lock' \in {lock, NoThread}
        /\ pc'[lock] # pc[lock]
        /\ \A u \in Threads \ {lock} : pc'[u] = pc[u] /\ loc'[u] = loc[u]

\* a step of thread u that reads or writes last_trace or basis_depth
Accesses(u) ==
    \/ pc[u] = "captured" /\ pc'[u] = "locked"
    \/ pc[u] \in {"locked", "walked"} /\ pc'[u] # pc[u]

\* a line of the locked path reaches the console from the holder of the lock
WriteUnderLock ==
    \A t \in Threads :
        (loc'[t].writes = loc[t].writes + 1 /\ loc[t].status = "Captured") =>
            lock = t

C8_Original ==
    /\ [](\A t \in Threads : InCall(t) => lock = t)
    /\ [][StateUnderLock /\ WriteUnderLock]_vars
    /\ [][\A t, u \in Threads : (InSection(t) /\ u # t) => ~Accesses(u)]_vars

(* C8 as amended: the backtrace is captured before the lock is taken (and  *)
(* the capture-unavailable path never takes it); the lock is held from the *)
(* call's first read of last_trace/basis_depth, through the diff, the      *)
(* render and the console write, until the call returns.  In that span no  *)
(* other call reads or writes last_trace or basis_depth, and lines of the  *)
(* locked path reach the console in lock-acquisition order.                *)

C8_Amended ==
    /\ [](\A t \in Threads : InSection(t) <=> lock = t)
    /\ [][StateUnderLock /\ WriteUnderLock]_vars
    /\ [][\A t, u \in Threads : (InSection(t) /\ u # t) => ~Accesses(u)]_vars

C8_Witness ==
    \E t, u \in Threads :
        /\ t # u
        /\ pc[t] = "rendered" /\ lock = t
        /\ pc[u] = "captured" /\ loc[u].status = "Captured"
        /\ loc[t].against.by = u

---------------------------------------------------------------------------
(* C9  Cross-thread diffing.  The match_depth of a rendered call is the    *)
(* common-prefix length (capped at trace_depth) of its frames and the      *)
(* frames stored by the latest rendered call of any thread; it is not      *)
(* computed from the caller's own previous frames.                         *)

CommonPrefix(a, b) ==
    LET m == IF Len(a) < Len(b) THEN Len(a) ELSE Len(b)
        agree == {n \in 0..m : \A i \in 1..n : a[i] = b[i]}
    IN CHOOSE n \in agree : \A j \in agree : j <= n

Capped(n, cap) == IF n < cap THEN n ELSE cap

C9_CrossThread ==
    \A t \in Threads :
        Rendered(t) =>
            loc[t].match_depth =
                Capped(CommonPrefix(Filtered(loc[t].trace), loc[t].against.frames),
                       loc[t].trace_depth)

C9_Witness ==
    \E t, u \in Threads :
        /\ t # u
        /\ Rendered(t)
        /\ loc[t].against.by = u
        /\ own_prev[t] # <<>>
        /\ loc[t].match_depth #
               Capped(CommonPrefix(Filtered(loc[t].trace), own_prev[t]),
                      loc[t].trace_depth)

---------------------------------------------------------------------------
(* C10  Output failure is fatal.  A call whose println failed is in the    *)
(* panicked state, having tried the write once; and a panicked call never  *)
(* leaves that state: no return, no retry, no second write.                *)

C10_OutputFailureFatal ==
    /\ [](\A t \in Threads :
             loc[t].write_failed => (pc[t] = "panicked" /\ loc[t].writes = 1))
    /\ [][\A t \in Threads :
             pc[t] = "panicked" => (pc'[t] = "panicked" /\ loc'[t] = loc[t])]_vars

C10_Witness ==
    \E t \in Threads :
        /\ loc[t].write_failed
        /\ loc[t].kind = "rendered"
        /\ poisoned

---------------------------------------------------------------------------
(* C11  Match depth.  For a call that keeps the non-empty frames C while   *)
(* last_trace held P at its entry, match_depth is the smaller of Len(C) - 1 *)
(* and the number of frames before the first index at which C and P        *)
(* differ (or P ends): frames equal to P at their index but after that     *)
(* first index are not counted, and P is read as it was before the pass    *)
(* overwrote it.                                                           *)

\* the first index of C at which P has no frame or another frame
FirstMismatch(C, P) ==
    LET differ == {i \in 1..Len(C) : i > Len(P) \/ C[i] # P[i]}
    IN IF differ = {} THEN Len(C) + 1
       ELSE CHOOSE i \in differ : \A j \in differ : i <= j

C11_MatchDepth ==
    \A t \in Threads :
        (pc[t] \in {"walked", "rendered", "written"} /\ loc[t].kind = "rendered") =>
            LET C == Filtered(loc[t].trace)
                P == loc[t].entry_last
            IN /\ C # <<>>
               /\ loc[t].match_depth = Capped(FirstMismatch(C, P) - 1, Len(C) - 1)

\* a frame after the first mismatch equals the old frame at its index, and
\* the old stack has been overwritten by the pass
C11_Witness ==
    \E t \in Threads :
        /\ pc[t] = "walked"
        /\ LET C == Filtered(loc[t].trace)
               P == loc[t].entry_last
           IN /\ FirstMismatch(C, P) >= 2
              /\ \E j \in 1..Len(C) :
                    /\ j > FirstMismatch(C, P)
                    /\ j <= Len(P)
                    /\ C[j] = P[j]
              /\ last_trace # P

---------------------------------------------------------------------------
(* C12  Root reset rule.  The step that renders a call sets basis_depth to *)
(* crate_depth when crate_depth is nonzero, and to trace_depth otherwise,  *)
(* if match_depth = 0 or match_depth is below the basis_depth stored       *)
(* before the call; in every other rendered call it leaves basis_depth as  *)
(* it was; and no other step gives basis_depth another value.              *)

\* thread t takes the step from the walked frames to the rendered prefix
Renders(t) == pc[t] = "walked" /\ pc'[t] # "walked"

ResetCondition(t) ==
    loc[t].match_depth = 0 \/ loc[t].match_depth < basis_depth

RootResetRule ==
    /\ \A t \in Threads :
          Renders(t) =>
              IF ResetCondition(t)
              THEN basis_depth' = IF loc[t].crate_depth # 0
                                  THEN loc[t].crate_depth
                                  ELSE loc[t].trace_depth
              ELSE basis_depth' = basis_depth
    /\ basis_depth' # basis_depth =>
          \E t \in Threads : Renders(t) /\ ResetCondition(t)

C12_RootReset == [][RootResetRule]_vars

\* a reset through `match_depth < basis_depth` with frames still matching,
\* which moved the basis to a nonzero crate_depth
C12_Witness ==
    \E t \in Threads :
        /\ Rendered(t)
        /\ loc[t].branch = "reset"
        /\ loc[t].match_depth >= 1
        /\ loc[t].match_depth < loc[t].entry_basis
        /\ loc[t].crate_depth # 0
        /\ basis_depth = loc[t].crate_depth
        /\ basis_depth # loc[t].entry_basis

---------------------------------------------------------------------------
(* C13  Crate depth.  As stated: for the frames a call keeps, crate_depth  *)
(* is the index, counted from 0 at the root, of the first frame of the     *)
(* caller's top-level compilation unit, and 0 when no kept frame belongs   *)
(* to it.                                                                  *)

\* the indices (from 0) of the kept frames that belong to the caller's crate
CrateIndices(t) ==
    LET C == Filtered(loc[t].trace)
    IN {i \in 0..(Len(C) - 1) : C[i + 1].unit = Head(loc[t].module_path)}

Least(S) == CHOOSE i \in S : \A j \in S : i <= j

Walked(t) ==
    pc[t] \in {"walked", "rendered", "written"} /\ loc[t].kind = "rendered"

---------------------------------------------------------------------------
(* C14  The renderer is total.  In the step that renders a call, every     *)
(* subtraction used as a repetition count is at least 0: trace_depth -     *)
(* basis_depth - 1 where it is evaluated (root reset with trace_depth >    *)
(* basis_depth), match_depth - basis_depth and trace_depth - match_depth   *)
(* on the continuing branch, and trace_depth - basis_depth for the         *)
(* continuation lines of a message with line breaks; so the step ends      *)
(* with a prefix and never in a panic.                                     *)

NoUnderflow(t) ==
    LET td == loc[t].trace_depth
        md == loc[t].match_depth
    IN /\ IF ResetCondition(t)
          THEN td > basis_depth' => td - basis_depth' - 1 >= 0
          ELSE md - basis_depth' >= 0 /\ td - md >= 0
       /\ Count(loc[t].text, NL) > 0 => td - basis_depth' >= 0
       /\ pc'[t] = "rendered"

C14_RendererTotal == [][\A t \in Threads : Renders(t) => NoUnderflow(t)]_vars

\* the edge: a stack rendered twice, where the uncapped match depth would
\* exceed trace_depth and all three counts of the continuing branch are 0
C14_Witness ==
    \E t \in Threads :
        /\ Rendered(t)
        /\ loc[t].branch = "continue"
        /\ Count(loc[t].text, NL) > 0
        /\ loc[t].entry_last = Filtered(loc[t].trace)
        /\ loc[t].match_depth = basis_depth
        /\ loc[t].trace_depth = loc[t].match_depth

---------------------------------------------------------------------------
(* C15  Every call completes.  Original statement: under fair scheduling   *)
(* of the lock every call eventually returns or ends in the fatal          *)
(* output-failure state, and these are the only ends of a call; the lock   *)
(* is released on every exit path (return after rendering, zero-frame      *)
(* return, fatal path), so a held lock always belongs to a thread that is  *)
(* still running its call.                                                 *)

Returned(t) == pc[t] = "idle"

OutputFailed(t) == pc[t] = "panicked" /\ loc[t].write_failed

\* the lock is never left with a thread that has ended its call
LockReleased ==
    \A t \in Threads : pc[t] \in {"idle", "panicked"} => lock # t

LockPoisoned(t) ==
    /\ pc[t] = "panicked"
    /\ poisoned
    /\ loc[t].status = "Captured"
    /\ loc[t].writes = 0
    /\ lock # t

---------------------------------------------------------------------------
(* C16  Equal prefix widths.  Every line a rendered call writes starts     *)
(* with exactly trace_depth - basis_depth + 1 cells, on the root-reset     *)
(* branch (also when the prefix is `@   ` alone) and on the continuing     *)
(* branch: the first line with the prefix, every later line with the       *)
(* continuation prefix; the text of the message follows in the same        *)
(* column on every line.                                                   *)

\* the number of indentation cells a written line starts with
LeadingCells(line) ==
    LET other == {i \in 1..Len(line) : line[i] \notin Cells}
    IN IF other = {} THEN Len(line) ELSE Least(other) - 1

C16_PrefixWidth ==
    \A t \in Threads :
        /\ Rendered(t) =>
              Len(loc[t].prefix) = loc[t].trace_depth - basis_depth + 1
        /\ (Written(t) /\ loc[t].kind = "rendered") =>
              \A i \in 1..NumLines(loc[t].printed) :
                  LET line == Line(loc[t].printed, i)
                      width == loc[t].trace_depth - basis_depth + 1
                  IN /\ LeadingCells(line) = width
                     /\ SubSeq(line, width + 1, Len(line)) = Line(loc[t].text, i)

\* a continuing call with padding, a divergence marker and several lines
C16_Witness ==
    \E t \in Threads :
        /\ Written(t) /\ loc[t].kind = "rendered"
        /\ loc[t].branch = "continue"
        /\ Count(loc[t].prefix, "    ") >= 1
        /\ Count(loc[t].prefix, ">---") >= 1
        /\ NumLines(loc[t].printed) = 3

---------------------------------------------------------------------------
(* C17  Baseline inside the stored stack.  When no call is in progress,    *)
(* either last_trace is empty and basis_depth = 0, or basis_depth is at    *)
(* most Len(last_trace) - 1; and a rendered call, from its render step     *)
(* on, has basis_depth <= trace_depth = Len(last_trace) - 1, whether or    *)
(* not it reset the root and whether or not its stack is shallower than    *)
(* the one before.                                                         *)

NoCallInProgress == \A t \in Threads : pc[t] \in {"idle", "panicked"}

C17_BaselineInside ==
    /\ NoCallInProgress =>
          \/ last_trace = <<>> /\ basis_depth = 0
          \/ basis_depth <= Len(last_trace) - 1
    /\ \A t \in Threads :
          Rendered(t) =>
              /\ loc[t].trace_depth = Len(last_trace) - 1
              /\ basis_depth <= loc[t].trace_depth

\* a call that kept the root, with a stack shallower than the one before,
\* and its last frame on the baseline
C17_Witness ==
    \E t \in Threads :
        /\ Written(t) /\ loc[t].kind = "rendered"
        /\ loc[t].branch = "continue"
        /\ Len(loc[t].entry_last) > Len(last_trace)
        /\ basis_depth = loc[t].trace_depth
        /\ basis_depth >= 1

---------------------------------------------------------------------------
(* C18  First call resets the root.  A rendered call that found last_trace *)
(* empty and basis_depth 0 took the root-reset branch, whatever its stack, *)
(* and its prefix begins with an `@` cell; and the prefix of a rendered    *)
(* call begins with an `@` cell only if the reset condition held for it    *)
(* (match_depth = 0 or match_depth below the basis_depth it found).        *)

AtCells == {"@---", "@   "}

BeginsWithAt(prefix) == prefix # <<>> /\ prefix[1] \in AtCells

TookReset(t) ==
    loc[t].match_depth = 0 \/ loc[t].match_depth < loc[t].entry_basis

C18_FirstCallResets ==
    \A t \in Threads :
        Rendered(t) =>
            /\ (loc[t].entry_last = <<>> /\ loc[t].entry_basis = 0) =>
                   (TookReset(t) /\ BeginsWithAt(loc[t].prefix))
            /\ BeginsWithAt(loc[t].prefix) => TookReset(t)

\* the first rendered call, made after a fallback call, with a deep stack
C18_Witness ==
    \E t \in Threads :
        /\ Rendered(t)
        /\ loc[t].entry_last = <<>> /\ loc[t].entry_basis = 0
        /\ prev_call.kind = "plain"
        /\ loc[t].trace_depth >= 2
        /\ loc[t].prefix[1] = "@---"

====
